---- MODULE Spec2Model ----
(***************************************************************************)
(* OAuth 2.0 authorization-code subsystem of mcp-sonarr                    *)
(* (src/src/mcp_sonarr/auth.py): the configuration, the in-memory          *)
(* authorization-code store, the authorize and token endpoints, the access *)
(* tokens and the middleware that asks for them.                           *)
(* The last part of the model is the filtering, sorting and pagination of  *)
(* sonarr_list_series (src/src/mcp_sonarr/http_server.py).                 *)
(*                                                                         *)
(* Python values are modelled as TLA+ strings.  None is the string None    *)
(* below; a str holding a code point above 127 is a member of NonAscii.    *)
(* A URL, and every str that is pasted into one, is a sequence of chunks   *)
(* in which each of the delimiters ? & = # is a chunk of its own.          *)
(* Time is in minutes, except in SpecIssue, where the clock counts the     *)
(* seconds jwt.encode rounds the claims of a token to.                     *)
(***************************************************************************)
EXTENDS Integers, Sequences, FiniteSets, TLC

VARIABLES cfg, now, codes, minted, redeemed, pc, tokens, asked, last

(* cfg       oauth_config, read once from the environment                  *)
(* now       datetime.now(timezone.utc), in minutes                        *)
(* codes     _authorization_codes: code -> client_id, redirect_uri,        *)
(*           expires_at, used                                              *)
(* pc        the number of handlers suspended in `await request.form()`,   *)
(*           per endpoint; the event loop runs a handler from one await to *)
(*           the next without interleaving                                 *)
(* minted    history: every code handed out, as it was issued              *)
(* redeemed  history: the codes validate_authorization_code returned True  *)
(*           for                                                           *)
(* tokens    history: the access tokens handed out, with their codes       *)
(* asked     history: the GET requests of /oauth/authorize answered, in    *)
(*           the specifications that record them                           *)
(* last      the request answered by the last step and its response        *)

vars == <<cfg, now, codes, minted, redeemed, pc, tokens, asked, last>>

-----------------------------------------------------------------------------
(* Bounds of the model *)

MaxCodes == 2
MaxTokens == 2
NumHandlers == 2
TickMinutes == 10
MaxNow == 20

-----------------------------------------------------------------------------
(* Python values *)

None == "<None>"

NonAscii == {"p<U+00E4>ss"}

Truthy(v) == v # None /\ v # ""

\* dict.get(key, default) on a mapping where an absent key is written None
Get(v, default) == IF v = None THEN default ELSE v

\* secrets.compare_digest raises TypeError unless both arguments are ASCII str
CompareDigestRaises(a, b) == a = None \/ b = None \/ a \in NonAscii \/ b \in NonAscii

CompareDigest(a, b) == a = b

-----------------------------------------------------------------------------
(* OAuthConfig *)

\* OAuthConfig.__init__: the environments the server is started in.  The token
\* lifetime is the default 60 without a fallback token and 5 with one.
Configs ==
    { [client_id |-> c, client_secret |-> s, auth_password |-> p,
       simple_auth_token |-> t,
       access_token_expire_minutes |-> IF t = None THEN 60 ELSE 5,
       jwt_secret |-> "jwt-secret"] :
         c \in {None, "", "abc"}, s \in {None, "", "s3cr3t"},
         p \in {None, "", "hunter2"} \cup NonAscii, t \in {None, "static"} }

\* oauth_enabled without the test of auth_password
MutOauthEnabledWithoutPassword(c) ==
    Truthy(c.client_id) /\ Truthy(c.client_secret)

oauth_enabled(c) ==
    Truthy(c.client_id) /\ Truthy(c.client_secret) /\ Truthy(c.auth_password)

auth_enabled(c) == oauth_enabled(c) \/ Truthy(c.simple_auth_token)

-----------------------------------------------------------------------------
(* Authorization-code store *)

CodeExpireMinutes == 10

\* the strings secrets.token_urlsafe(32) returns, in the order it returns them
CodeNames == <<"c1", "c2", "c3", "c4">>

NewCode == CodeNames[Cardinality(DOMAIN minted) + 1]

\* _cleanup_expired_codes deleting nothing
MutCleanupNothing(store, t) == store

_cleanup_expired_codes(store, t) ==
    [c \in {k \in DOMAIN store : ~(t > store[k].expires_at)} |-> store[c]]

NewEntry(client_id, redirect_uri, t) ==
    [client_id |-> client_id, redirect_uri |-> redirect_uri,
     expires_at |-> t + CodeExpireMinutes, used |-> FALSE]

\* generate_authorization_code sweeping the entries from the minute of their
\* expires_at on
MutGenerateSweepsAtExpiry(store, code, client_id, redirect_uri, t) ==
    LET added == [c \in DOMAIN store \cup {code} |->
                    IF c = code THEN NewEntry(client_id, redirect_uri, t) ELSE store[c]]
    IN [c \in {k \in DOMAIN added : ~(t >= added[k].expires_at)} |-> added[c]]

generate_authorization_code(store, code, client_id, redirect_uri, t) ==
    _cleanup_expired_codes(
        [c \in DOMAIN store \cup {code} |->
            IF c = code THEN NewEntry(client_id, redirect_uri, t) ELSE store[c]],
        t)

\* the record of the codes handed out, kept when the store drops an entry
Issued(log, code, client_id, redirect_uri, t) ==
    [c \in DOMAIN log \cup {code} |->
        IF c = code THEN NewEntry(client_id, redirect_uri, t) ELSE log[c]]

Remove(store, code) == [c \in DOMAIN store \ {code} |-> store[c]]

\* validate_authorization_code without the check of the used flag
MutValidateIgnoresUsed(store, code, client_id, redirect_uri, t) ==
    IF code \notin DOMAIN store THEN [ok |-> FALSE, store |-> store]
    ELSE IF t > store[code].expires_at THEN [ok |-> FALSE, store |-> Remove(store, code)]
    ELSE IF store[code].client_id # client_id THEN [ok |-> FALSE, store |-> store]
    ELSE IF store[code].redirect_uri # redirect_uri THEN [ok |-> FALSE, store |-> store]
    ELSE [ok |-> TRUE, store |-> [store EXCEPT ![code].used = TRUE]]

\* validate_authorization_code without the check of expires_at
MutValidateIgnoresExpiry(store, code, client_id, redirect_uri, t) ==
    IF code \notin DOMAIN store THEN [ok |-> FALSE, store |-> store]
    ELSE IF store[code].used THEN [ok |-> FALSE, store |-> Remove(store, code)]
    ELSE IF store[code].client_id # client_id THEN [ok |-> FALSE, store |-> store]
    ELSE IF store[code].redirect_uri # redirect_uri THEN [ok |-> FALSE, store |-> store]
    ELSE [ok |-> TRUE, store |-> [store EXCEPT ![code].used = TRUE]]

\* validate_authorization_code without the check of client_id
MutValidateIgnoresClient(store, code, client_id, redirect_uri, t) ==
    IF code \notin DOMAIN store THEN [ok |-> FALSE, store |-> store]
    ELSE IF t > store[code].expires_at THEN [ok |-> FALSE, store |-> Remove(store, code)]
    ELSE IF store[code].used THEN [ok |-> FALSE, store |-> Remove(store, code)]
    ELSE IF store[code].redirect_uri # redirect_uri THEN [ok |-> FALSE, store |-> store]
    ELSE [ok |-> TRUE, store |-> [store EXCEPT ![code].used = TRUE]]

\* validate_authorization_code dropping the entry on a client_id or redirect_uri
\* that does not match, as it does on an expired or used one
MutValidateConsumesOnMismatch(store, code, client_id, redirect_uri, t) ==
    IF code \notin DOMAIN store THEN [ok |-> FALSE, store |-> store]
    ELSE IF t > store[code].expires_at THEN [ok |-> FALSE, store |-> Remove(store, code)]
    ELSE IF store[code].used THEN [ok |-> FALSE, store |-> Remove(store, code)]
    ELSE IF store[code].client_id # client_id
         THEN [ok |-> FALSE, store |-> Remove(store, code)]
    ELSE IF store[code].redirect_uri # redirect_uri
         THEN [ok |-> FALSE, store |-> Remove(store, code)]
    ELSE [ok |-> TRUE, store |-> [store EXCEPT ![code].used = TRUE]]

\* validate_authorization_code marking the entry used when the redirect_uri does
\* not match
MutValidateMarksOnMismatch(store, code, client_id, redirect_uri, t) ==
    IF code \notin DOMAIN store THEN [ok |-> FALSE, store |-> store]
    ELSE IF t > store[code].expires_at THEN [ok |-> FALSE, store |-> Remove(store, code)]
    ELSE IF store[code].used THEN [ok |-> FALSE, store |-> Remove(store, code)]
    ELSE IF store[code].client_id # client_id THEN [ok |-> FALSE, store |-> store]
    ELSE IF store[code].redirect_uri # redirect_uri
         THEN [ok |-> FALSE, store |-> [store EXCEPT ![code].used = TRUE]]
    ELSE [ok |-> TRUE, store |-> [store EXCEPT ![code].used = TRUE]]

\* validate_authorization_code refusing a code from the minute of expires_at on
MutValidateExpiresAtBoundary(store, code, client_id, redirect_uri, t) ==
    IF code \notin DOMAIN store THEN [ok |-> FALSE, store |-> store]
    ELSE IF t >= store[code].expires_at THEN [ok |-> FALSE, store |-> Remove(store, code)]
    ELSE IF store[code].used THEN [ok |-> FALSE, store |-> Remove(store, code)]
    ELSE IF store[code].client_id # client_id THEN [ok |-> FALSE, store |-> store]
    ELSE IF store[code].redirect_uri # redirect_uri THEN [ok |-> FALSE, store |-> store]
    ELSE [ok |-> TRUE, store |-> [store EXCEPT ![code].used = TRUE]]

\* validate_authorization_code: the value returned and the store left behind
validate_authorization_code(store, code, client_id, redirect_uri, t) ==
    IF code \notin DOMAIN store THEN [ok |-> FALSE, store |-> store]
    ELSE IF t > store[code].expires_at THEN [ok |-> FALSE, store |-> Remove(store, code)]
    ELSE IF store[code].used THEN [ok |-> FALSE, store |-> Remove(store, code)]
    ELSE IF store[code].client_id # client_id THEN [ok |-> FALSE, store |-> store]
    ELSE IF store[code].redirect_uri # redirect_uri THEN [ok |-> FALSE, store |-> store]
    ELSE [ok |-> TRUE, store |-> [store EXCEPT ![code].used = TRUE]]

-----------------------------------------------------------------------------
(* URLs *)

\* urllib.parse.quote_plus, chunk by chunk
QuoteChunk(c) ==
    CASE c = "?" -> "%3F"
      [] c = "&" -> "%26"
      [] c = "=" -> "%3D"
      [] c = "#" -> "%23"
      [] OTHER -> c

quote_plus(s) == [i \in 1..Len(s) |-> QuoteChunk(s[i])]

\* urllib.parse.urlencode of a dict given as the sequence of its (key, value) items
RECURSIVE urlencode(_)
urlencode(params) ==
    IF params = <<>> THEN <<>>
    ELSE LET item == <<params[1][1], "=">> \o quote_plus(params[1][2])
         IN IF Len(params) = 1 THEN item
            ELSE item \o <<"&">> \o urlencode(Tail(params))

\* params = {"code": code}; if state: params["state"] = state
RedirectParams(code, state) ==
    IF state # <<>> THEN << <<"code", <<code>> >>, <<"state", state>> >>
    ELSE << <<"code", <<code>> >> >>

\* f"{redirect_uri}?{urlencode(params)}"
RedirectUrl(redirect_uri, code, state) ==
    redirect_uri \o <<"?">> \o urlencode(RedirectParams(code, state))

-----------------------------------------------------------------------------
(* Access tokens *)

\* timedelta(minutes=...).total_seconds()
SecondsPerMinute == 60

\* create_access_token: the claims, the key they are signed with, expires_in
\* create_access_token reads the clock twice: `expire` comes from the first
\* reading (line 127), "iat" from the second (line 132).  jwt.encode stores both
\* as whole numbers of the clock's unit; `ticks` is the number of clock units in
\* a minute.  expires_in is always in seconds.
ClaimsFromReadings(client_id, first, second, ticks) ==
    [access_token |->
        [sub |-> client_id,
         exp |-> first + cfg.access_token_expire_minutes * ticks,
         iat |-> second,
         scope |-> "full",
         iss |-> "mcp-sonarr",
         key |-> cfg.jwt_secret],
     expires_in |-> cfg.access_token_expire_minutes * SecondsPerMinute]

\* create_access_token on a clock that counts minutes: the two readings fall
\* in the same minute
create_access_token(client_id, t) == ClaimsFromReadings(client_id, t, t, 1)

\* the record of an access token handed out: the code it was exchanged for, the
\* number of this exchange among those of the code, the token
Grant(code, token) ==
    [code |-> code, n |-> Cardinality({g \in tokens : g.code = code}) + 1,
     token |-> token]

\* verify_password accepting every password
MutVerifyPasswordAcceptsAll(password) == TRUE

\* verify_password, called with OAuth enabled
VerifyPasswordRaises(password) ==
    Truthy(cfg.auth_password) /\ CompareDigestRaises(password, cfg.auth_password)

verify_password(password) ==
    IF ~Truthy(cfg.auth_password) THEN FALSE
    ELSE CompareDigest(password, cfg.auth_password)

\* verify_client_credentials: `and` evaluates its right operand only when the
\* left one is true
VerifyClientRaises(client_id, client_secret) ==
    /\ oauth_enabled(cfg)
    /\ \/ CompareDigestRaises(client_id, cfg.client_id)
       \/ /\ CompareDigest(client_id, cfg.client_id)
          /\ CompareDigestRaises(client_secret, cfg.client_secret)

verify_client_credentials(client_id, client_secret) ==
    IF ~oauth_enabled(cfg) THEN FALSE
    ELSE /\ CompareDigest(client_id, cfg.client_id)
         /\ CompareDigest(client_secret, cfg.client_secret)

-----------------------------------------------------------------------------
(* Requests and responses *)

\* a str built of chunks that is None
NoneUrl == <<None>>

CbA == <<"https://cb-a">>
CbQ == <<"https://cb-b", "?", "x", "=", "1">>

\* The values the request fields are drawn from (an absent field is None), the
\* number of requests that may be in progress at once, and whether the GET
\* requests of /oauth/authorize are recorded in `asked`.
Flow ==
    [handlers |-> NumHandlers,
     record |-> FALSE,
     client_ids |-> {"abc"},
     redirect_uris |-> {CbA, CbQ},
     states |-> {<<"xy", "&", "z">>},
     response_types |-> {"code"},
     passwords |-> {"hunter2", "wrong"} \cup NonAscii,
     grant_types |-> {"authorization_code"},
     token_redirect_uris |-> {CbA, CbQ},
     token_client_ids |-> {"abc"},
     client_secrets |-> {"s3cr3t"}]

Wide ==
    [handlers |-> 1,
     record |-> FALSE,
     client_ids |-> {None, "abc", "other"},
     redirect_uris |-> {CbA, CbQ},
     states |-> {<<>>, <<"xy", "&", "z">>},
     response_types |-> {None, "code", "token"},
     passwords |-> {None, "hunter2", "wrong"} \cup NonAscii,
     grant_types |-> {None, "authorization_code", "password"},
     token_redirect_uris |-> {CbA, CbQ, NoneUrl},
     token_client_ids |-> {None, "abc", "other"} \cup NonAscii,
     client_secrets |-> {None, "s3cr3t", "wrong"} \cup NonAscii]

Codes == {None} \cup {CodeNames[i] : i \in 1..MaxCodes}

JsonError(status, error) == [kind |-> "json", status |-> status, error |-> error]

NotConfigured == JsonError(501, "oauth_not_configured")

\* an exception no handler catches: Starlette answers 500
ServerError == [kind |-> "exception", status |-> 500, error |-> "TypeError"]

\* html.escape, chunk by chunk
EscapeChunk(c) ==
    CASE c = "&" -> "&amp;"
      [] c = "<" -> "&lt;"
      [] c = ">" -> "&gt;"
      [] c = "\"" -> "&quot;"
      [] c = "'" -> "&#x27;"
      [] OTHER -> c

html_escape(s) == [i \in 1..Len(s) |-> EscapeChunk(s[i])]

\* AUTHORIZATION_FORM_HTML.format(...): the fields filled in, and whether the
\* error line is shown
Form(status, client_id, redirect_uri, state, response_type, error_html) ==
    [kind |-> "form", status |-> status, client_id |-> EscapeChunk(client_id),
     redirect_uri |-> html_escape(redirect_uri), state |-> html_escape(state),
     response_type |-> EscapeChunk(response_type), error_html |-> error_html]

Redirect(url) == [kind |-> "redirect", status |-> 302, location |-> url]

\* the handlers suspended in `await request.form()`, by endpoint
Idle == [authorize_form |-> 0, token_form |-> 0]

InProgress == pc.authorize_form + pc.token_form

Awaiting == [op |-> "await"]

-----------------------------------------------------------------------------
(* oauth_authorize *)

\* the GET branch without the check of response_type
MutAuthorizeGetAnyResponseType(q) ==
    LET client_id == Get(q.client_id, "")
        response_type == Get(q.response_type, "code")
    IN IF ~oauth_enabled(cfg) THEN NotConfigured
       ELSE IF client_id # cfg.client_id THEN JsonError(400, "invalid_client")
       ELSE Form(200, client_id, q.redirect_uri, q.state, response_type, FALSE)

\* request.method == "GET"
AuthorizeGetResponse(q) ==
    LET client_id == Get(q.client_id, "")
        redirect_uri == q.redirect_uri
        state == q.state
        response_type == Get(q.response_type, "code")
    IN IF ~oauth_enabled(cfg) THEN NotConfigured
       ELSE IF client_id # cfg.client_id THEN JsonError(400, "invalid_client")
       ELSE IF response_type # "code" THEN JsonError(400, "unsupported_response_type")
       ELSE Form(200, client_id, redirect_uri, state, response_type, FALSE)

\* the record of a GET: the flow it belongs to, the response_type asked for,
\* whether the form was displayed
Asked(q) ==
    [client_id |-> Get(q.client_id, ""), redirect_uri |-> q.redirect_uri,
     state |-> q.state, response_type |-> Get(q.response_type, "code"),
     displayed |-> AuthorizeGetResponse(q).kind = "form"]

AuthorizeGet(D) ==
    /\ InProgress < D.handlers
    /\ \E c \in D.client_ids, r \in D.redirect_uris, s \in D.states,
          rt \in D.response_types :
         LET q == [client_id |-> c, redirect_uri |-> r, state |-> s, response_type |-> rt]
         IN /\ last' = [op |-> "authorize_get", req |-> q,
                        resp |-> AuthorizeGetResponse(q)]
            /\ asked' = IF D.record THEN asked \cup {Asked(q)} ELSE asked
    /\ UNCHANGED <<cfg, now, codes, minted, redeemed, pc, tokens>>

\* request.method == "POST", up to `await request.form()`
AuthorizePostBegin(D) ==
    /\ InProgress < D.handlers
    /\ IF ~oauth_enabled(cfg)
       THEN /\ last' = [op |-> "authorize_post", resp |-> NotConfigured]
            /\ pc' = pc
       ELSE /\ last' = Awaiting
            /\ pc' = [pc EXCEPT !.authorize_form = @ + 1]
    /\ UNCHANGED <<cfg, now, codes, minted, redeemed, tokens, asked>>

\* request.method == "POST", from the form to the response
\* oauth_authorize (POST) without the client_id check
MutAuthorizePostAnyClient(f) ==
    LET password == Get(f.password, "")
    IN IF VerifyPasswordRaises(password) THEN "raise"
       ELSE IF ~verify_password(password) THEN "invalid_password"
       ELSE "issue"

AuthorizePostOutcome(f) ==
    LET client_id == Get(f.client_id, "")
        password == Get(f.password, "")
    IN IF client_id # cfg.client_id THEN "invalid_client"
       ELSE IF VerifyPasswordRaises(password) THEN "raise"
       ELSE IF ~verify_password(password) THEN "invalid_password"
       ELSE "issue"

AuthorizePostFinish(D) ==
    /\ pc.authorize_form > 0
    /\ pc' = [pc EXCEPT !.authorize_form = @ - 1]
    /\ \E c \in D.client_ids, r \in D.redirect_uris, s \in D.states, p \in D.passwords :
         LET f == [client_id |-> c, redirect_uri |-> r, state |-> s, password |-> p]
             outcome == AuthorizePostOutcome(f)
             client_id == Get(c, "")
             code == NewCode
         IN CASE outcome = "invalid_client" ->
                   /\ last' = [op |-> "authorize_post", req |-> f,
                               resp |-> JsonError(400, "invalid_client")]
                   /\ UNCHANGED <<codes, minted>>
              [] outcome = "raise" ->
                   /\ last' = [op |-> "authorize_post", req |-> f, resp |-> ServerError]
                   /\ UNCHANGED <<codes, minted>>
              [] outcome = "invalid_password" ->
                   /\ last' = [op |-> "authorize_post", req |-> f,
                               resp |-> Form(401, client_id, r, s, "code", TRUE)]
                   /\ UNCHANGED <<codes, minted>>
              [] outcome = "issue" ->
                   /\ Cardinality(DOMAIN minted) < MaxCodes
                   /\ codes' = generate_authorization_code(codes, code, client_id, r, now)
                   /\ minted' = Issued(minted, code, client_id, r, now)
                   /\ last' = [op |-> "authorize_post", req |-> f, code |-> code,
                               resp |-> Redirect(RedirectUrl(r, code, s))]
    /\ UNCHANGED <<cfg, now, redeemed, tokens, asked>>

-----------------------------------------------------------------------------
(* oauth_token *)

\* up to `await request.form()`
TokenBegin(D) ==
    /\ InProgress < D.handlers
    /\ IF ~oauth_enabled(cfg)
       THEN /\ last' = [op |-> "token", resp |-> NotConfigured]
            /\ pc' = pc
       ELSE /\ last' = Awaiting
            /\ pc' = [pc EXCEPT !.token_form = @ + 1]
    /\ UNCHANGED <<cfg, now, codes, minted, redeemed, tokens, asked>>

\* oauth_token looking the code up before it looks at the client credentials
MutTokenOutcomeCodeFirst(f) ==
    IF f.grant_type # "authorization_code" THEN "unsupported_grant_type"
    ELSE IF f.code \notin DOMAIN codes THEN "invalid_grant"
    ELSE IF VerifyClientRaises(f.client_id, f.client_secret) THEN "raise"
    ELSE IF ~verify_client_credentials(f.client_id, f.client_secret) THEN "invalid_client"
    ELSE IF ~validate_authorization_code(codes, f.code, f.client_id, f.redirect_uri, now).ok
         THEN "invalid_grant"
    ELSE "token"

TokenOutcome(f) ==
    IF f.grant_type # "authorization_code" THEN "unsupported_grant_type"
    ELSE IF VerifyClientRaises(f.client_id, f.client_secret) THEN "raise"
    ELSE IF ~verify_client_credentials(f.client_id, f.client_secret) THEN "invalid_client"
    ELSE IF ~validate_authorization_code(codes, f.code, f.client_id, f.redirect_uri, now).ok
         THEN "invalid_grant"
    ELSE "token"

\* the response to the form f, and the store left behind
TokenAnswer(f) ==
    LET outcome == TokenOutcome(f)
        made == create_access_token(f.client_id, now)
    IN CASE outcome = "unsupported_grant_type" -> JsonError(400, "unsupported_grant_type")
         [] outcome = "raise" -> ServerError
         [] outcome = "invalid_client" -> JsonError(401, "invalid_client")
         [] outcome = "invalid_grant" -> JsonError(400, "invalid_grant")
         [] outcome = "token" ->
              [kind |-> "token", status |-> 200, access_token |-> made.access_token,
               token_type |-> "Bearer", expires_in |-> made.expires_in]

TokenStore(f) ==
    IF TokenOutcome(f) \in {"invalid_grant", "token"}
    THEN validate_authorization_code(codes, f.code, f.client_id, f.redirect_uri, now).store
    ELSE codes

\* oauth_token redeeming the code before it looks at the client credentials
MutTokenFinishRedeemsFirst(D) ==
    /\ pc.token_form > 0
    /\ pc' = [pc EXCEPT !.token_form = @ - 1]
    /\ \E g \in D.grant_types, k \in Codes, r \in D.token_redirect_uris,
          c \in D.token_client_ids, s \in D.client_secrets :
         LET f == [grant_type |-> g, code |-> k, redirect_uri |-> r,
                   client_id |-> c, client_secret |-> s]
             outcome == TokenOutcome(f)
             made == create_access_token(c, now)
         IN CASE outcome = "unsupported_grant_type" ->
                   /\ last' = [op |-> "token", req |-> f, validated |-> FALSE,
                               resp |-> JsonError(400, "unsupported_grant_type")]
                   /\ UNCHANGED <<codes, tokens, redeemed>>
              [] outcome = "raise" ->
                   /\ last' = [op |-> "token", req |-> f, validated |-> FALSE,
                               resp |-> ServerError]
                   /\ UNCHANGED <<codes, tokens, redeemed>>
              [] outcome = "invalid_client" ->
                   /\ codes' = validate_authorization_code(codes, k, c, r, now).store
                   /\ last' = [op |-> "token", req |-> f, validated |-> FALSE,
                               resp |-> JsonError(401, "invalid_client")]
                   /\ UNCHANGED <<tokens, redeemed>>
              [] outcome = "invalid_grant" ->
                   /\ codes' = validate_authorization_code(codes, k, c, r, now).store
                   /\ last' = [op |-> "token", req |-> f, validated |-> TRUE,
                               resp |-> JsonError(400, "invalid_grant")]
                   /\ UNCHANGED <<tokens, redeemed>>
              [] outcome = "token" ->
                   /\ Cardinality(tokens) < MaxTokens
                   /\ codes' = validate_authorization_code(codes, k, c, r, now).store
                   /\ redeemed' = redeemed \cup {k}
                   /\ tokens' = tokens \cup {Grant(k, made.access_token)}
                   /\ last' = [op |-> "token", req |-> f, validated |-> TRUE,
                               resp |-> [kind |-> "token", status |-> 200,
                                         access_token |-> made.access_token,
                                         token_type |-> "Bearer",
                                         expires_in |-> made.expires_in]]
    /\ UNCHANGED <<cfg, now, minted, asked>>

TokenFinish(D) ==
    /\ pc.token_form > 0
    /\ pc' = [pc EXCEPT !.token_form = @ - 1]
    /\ \E g \in D.grant_types, k \in Codes, r \in D.token_redirect_uris,
          c \in D.token_client_ids, s \in D.client_secrets :
         LET f == [grant_type |-> g, code |-> k, redirect_uri |-> r,
                   client_id |-> c, client_secret |-> s]
             outcome == TokenOutcome(f)
             made == create_access_token(c, now)
         IN CASE outcome = "unsupported_grant_type" ->
                   /\ last' = [op |-> "token", req |-> f, validated |-> FALSE,
                               resp |-> JsonError(400, "unsupported_grant_type")]
                   /\ UNCHANGED <<codes, tokens, redeemed>>
              [] outcome = "raise" ->
                   /\ last' = [op |-> "token", req |-> f, validated |-> FALSE,
                               resp |-> ServerError]
                   /\ UNCHANGED <<codes, tokens, redeemed>>
              [] outcome = "invalid_client" ->
                   /\ last' = [op |-> "token", req |-> f, validated |-> FALSE,
                               resp |-> JsonError(401, "invalid_client")]
                   /\ UNCHANGED <<codes, tokens, redeemed>>
              [] outcome = "invalid_grant" ->
                   /\ codes' = validate_authorization_code(codes, k, c, r, now).store
                   /\ last' = [op |-> "token", req |-> f, validated |-> TRUE,
                               resp |-> JsonError(400, "invalid_grant")]
                   /\ UNCHANGED <<tokens, redeemed>>
              [] outcome = "token" ->
                   /\ Cardinality(tokens) < MaxTokens
                   /\ codes' = validate_authorization_code(codes, k, c, r, now).store
                   /\ redeemed' = redeemed \cup {k}
                   /\ tokens' = tokens \cup {Grant(k, made.access_token)}
                   /\ last' = [op |-> "token", req |-> f, validated |-> TRUE,
                               resp |-> [kind |-> "token", status |-> 200,
                                         access_token |-> made.access_token,
                                         token_type |-> "Bearer",
                                         expires_in |-> made.expires_in]]
    /\ UNCHANGED <<cfg, now, minted, asked>>

-----------------------------------------------------------------------------
(* The clock: datetime.now(timezone.utc) *)

Tick ==
    /\ now + TickMinutes <= MaxNow
    /\ now' = now + TickMinutes
    /\ last' = [op |-> "tick"]
    /\ UNCHANGED <<cfg, codes, minted, redeemed, pc, tokens, asked>>

-----------------------------------------------------------------------------
(* The server *)

Init ==
    /\ cfg \in Configs
    /\ now = 0
    /\ codes = <<>>
    /\ minted = <<>>
    /\ redeemed = {}
    /\ pc = Idle
    /\ tokens = {}
    /\ asked = {}
    /\ last = [op |-> "init"]

\* the whole server, concurrent handlers, well-formed requests
Next ==
    \/ AuthorizeGet(Flow)
    \/ AuthorizePostBegin(Flow)
    \/ AuthorizePostFinish(Flow)
    \/ TokenBegin(Flow)
    \/ TokenFinish(Flow)
    \/ Tick

Spec == Init /\ [][Next]_vars

\* the authorization endpoint, every request
NextAuthorize ==
    \/ AuthorizeGet(Wide)
    \/ AuthorizePostBegin(Wide)
    \/ AuthorizePostFinish(Wide)
    \/ Tick

SpecAuthorize == Init /\ [][NextAuthorize]_vars

\* the authorization endpoint with the GET requests recorded
Recorded ==
    [handlers |-> 1,
     record |-> TRUE,
     client_ids |-> {"abc"},
     redirect_uris |-> {CbA},
     states |-> {<<>>, <<"xy", "&", "z">>},
     response_types |-> {"code", "token"},
     passwords |-> {"hunter2", "wrong"}]

NextFlows ==
    \/ AuthorizeGet(Recorded)
    \/ AuthorizePostBegin(Recorded)
    \/ AuthorizePostFinish(Recorded)
    \/ Tick

\* the requests of the token endpoint in full width, the codes being issued by
\* well-formed submissions of the form
Exchange ==
    [handlers |-> 1,
     record |-> FALSE,
     client_ids |-> {"abc"},
     redirect_uris |-> {CbA},
     states |-> {<<>>},
     response_types |-> {"code"},
     passwords |-> {"hunter2"},
     grant_types |-> Wide.grant_types,
     token_redirect_uris |-> Wide.token_redirect_uris,
     token_client_ids |-> Wide.token_client_ids,
     client_secrets |-> Wide.client_secrets]

\* the token endpoint, every request
NextToken ==
    \/ AuthorizePostBegin(Exchange)
    \/ AuthorizePostFinish(Exchange)
    \/ TokenBegin(Exchange)
    \/ TokenFinish(Exchange)
    \/ Tick

SpecToken == Init /\ [][NextToken]_vars

-----------------------------------------------------------------------------
(* verify_access_token and OAuthMiddleware *)

\* A bearer token is a record: a JWT, as create_access_token makes it, has the
\* fields of the payload and `key`, the secret its signature verifies under
\* (NoKey for a signature that verifies under no secret); every other token
\* has the one field `text`.
NoKey == "<no key>"

IsJwt(token) == "key" \in DOMAIN token

Opaque(text) == [text |-> text]

\* the payload jwt.decode returns
Payload(token) ==
    [sub |-> token.sub, exp |-> token.exp, iat |-> token.iat,
     scope |-> token.scope, iss |-> token.iss]

\* Optional[dict]: the payload, or None
Some(claims) == [ok |-> TRUE, claims |-> claims]
Nothing == [ok |-> FALSE]

\* verify_access_token accepting a token whatever its exp
MutVerifyIgnoresExp(token, t) ==
    IF ~IsJwt(token) THEN Nothing
    ELSE IF token.key # cfg.jwt_secret THEN Nothing
    ELSE Some(Payload(token))

\* verify_access_token accepting a token whatever secret it was signed with
MutVerifyIgnoresKey(token, t) ==
    IF ~IsJwt(token) THEN Nothing
    ELSE IF token.exp < t THEN Nothing
    ELSE Some(Payload(token))

\* verify_access_token accepting a token only while the code it was exchanged
\* for is in the store
MutVerifyConsultsStore(token, t) ==
    IF ~IsJwt(token) THEN Nothing
    ELSE IF token.key # cfg.jwt_secret THEN Nothing
    ELSE IF token.exp < t THEN Nothing
    ELSE IF ~\E g \in tokens : g.token = token /\ g.code \in DOMAIN codes THEN Nothing
    ELSE Some(Payload(token))

\* verify_access_token at time t: jwt.decode raises JWTError for a string that
\* is no JWT, for a signature that does not verify under jwt_secret, and for
\* exp < now
verify_access_token(token, t) ==
    IF ~IsJwt(token) THEN Nothing
    ELSE IF token.key # cfg.jwt_secret THEN Nothing
    ELSE IF token.exp < t THEN Nothing
    ELSE Some(Payload(token))

\* request.url.path as chunks, each trailing "/" a chunk of its own; "" is <<>>
RECURSIVE rstrip(_)
rstrip(path) ==
    IF path # <<>> /\ path[Len(path)] = "/" THEN rstrip(SubSeq(path, 1, Len(path) - 1))
    ELSE path

EXEMPT_PATHS ==
    { <<"/health">>, <<"/info">>, <<"/debug/series">>, <<"/oauth/authorize">>,
      <<"/oauth/token">>, <<"/.well-known/oauth-authorization-server">> }

\* the Authorization header: the scheme and what follows the space after it;
\* None for a header that was not sent, and for credentials that are missing
NoHeader == [scheme |-> None, credentials |-> Opaque(None)]

\* auth_header.startswith("Bearer ")
StartsWithBearer(header) ==
    header.scheme = "Bearer" /\ header.credentials # Opaque(None)

Realm == "Bearer realm=\"mcp-sonarr\""
RealmInvalidToken == "Bearer realm=\"mcp-sonarr\", error=\"invalid_token\""

Challenge(error, www_authenticate) ==
    [kind |-> "json", status |-> 401, error |-> error,
     www_authenticate |-> www_authenticate]

\* call_next(request), with request.state.auth_claims when it was set
Forwarded(auth_claims) == [kind |-> "forwarded", auth_claims |-> auth_claims]

\* secrets.compare_digest(token, oauth_config.simple_auth_token); a JWT is a
\* str of ASCII characters
FallbackRaises(token) ==
    ~IsJwt(token) /\ CompareDigestRaises(token.text, cfg.simple_auth_token)

FallbackMatches(token) ==
    ~IsJwt(token) /\ CompareDigest(token.text, cfg.simple_auth_token)

\* dispatch answering a header without a Bearer token as it answers a token
\* that was rejected
MutDispatchOneChallenge(req) ==
    LET path == rstrip(req.path)
        token == req.header.credentials
    IN IF path \in EXEMPT_PATHS \/ path = <<>> THEN Forwarded(Nothing)
       ELSE IF ~auth_enabled(cfg) THEN Forwarded(Nothing)
       ELSE IF ~StartsWithBearer(req.header) THEN Challenge("invalid_token", RealmInvalidToken)
       ELSE IF Truthy(cfg.simple_auth_token) /\ FallbackRaises(token) THEN ServerError
       ELSE IF Truthy(cfg.simple_auth_token) /\ FallbackMatches(token)
            THEN Forwarded(Some([sub |-> "bearer-token", scope |-> "full"]))
       ELSE IF verify_access_token(token, now).ok
            THEN Forwarded(verify_access_token(token, now))
       ELSE Challenge("invalid_token", RealmInvalidToken)

\* dispatch asking for a token on every path when no authentication is
\* configured
MutDispatchAlwaysGuards(req) ==
    LET path == rstrip(req.path)
        token == req.header.credentials
    IN IF path \in EXEMPT_PATHS \/ path = <<>> THEN Forwarded(Nothing)
       ELSE IF ~StartsWithBearer(req.header) THEN Challenge("unauthorized", Realm)
       ELSE IF Truthy(cfg.simple_auth_token) /\ FallbackRaises(token) THEN ServerError
       ELSE IF Truthy(cfg.simple_auth_token) /\ FallbackMatches(token)
            THEN Forwarded(Some([sub |-> "bearer-token", scope |-> "full"]))
       ELSE IF verify_access_token(token, now).ok
            THEN Forwarded(verify_access_token(token, now))
       ELSE Challenge("invalid_token", RealmInvalidToken)

\* OAuthMiddleware.dispatch: the response, or the request handed to call_next
DispatchResponse(req) ==
    LET path == rstrip(req.path)
        token == req.header.credentials
    IN IF path \in EXEMPT_PATHS \/ path = <<>> THEN Forwarded(Nothing)
       ELSE IF ~auth_enabled(cfg) THEN Forwarded(Nothing)
       ELSE IF ~StartsWithBearer(req.header) THEN Challenge("unauthorized", Realm)
       ELSE IF Truthy(cfg.simple_auth_token) /\ FallbackRaises(token) THEN ServerError
       ELSE IF Truthy(cfg.simple_auth_token) /\ FallbackMatches(token)
            THEN Forwarded(Some([sub |-> "bearer-token", scope |-> "full"]))
       ELSE IF verify_access_token(token, now).ok
            THEN Forwarded(verify_access_token(token, now))
       ELSE Challenge("invalid_token", RealmInvalidToken)

\* the paths requested
Paths ==
    { <<"/health">>, <<"/health", "/">>, <<"/oauth/token">>, <<"/">>, <<"/mcp">>,
      <<"/mcp", "/">>, <<"/debug">> }

\* what an access token handed out can be turned into without jwt_secret: the
\* same payload signed with another secret, the signature altered, the payload
\* altered under the signature of the original
Tampered(token) ==
    { [token EXCEPT !.key = "other-secret"],
      [token EXCEPT !.key = NoKey],
      [token EXCEPT !.exp = MaxNow + 1, !.key = NoKey] }

\* the bearer tokens presented
BearerTokens ==
    {Opaque(x) : x \in {"static", "guess"} \cup NonAscii}
      \cup {g.token : g \in tokens}
      \cup UNION {Tampered(g.token) : g \in tokens}

Headers ==
    {NoHeader, [scheme |-> "Bearer", credentials |-> Opaque(None)],
     [scheme |-> "Basic", credentials |-> Opaque("static")]}
      \cup {[scheme |-> "Bearer", credentials |-> c] : c \in BearerTokens}

\* a request for one of the paths with one of the headers goes through the
\* middleware
DispatchOf(paths, headers) ==
    /\ \E p \in paths, h \in headers :
         LET req == [path |-> p, header |-> h]
         IN last' = [op |-> "dispatch", req |-> req, resp |-> DispatchResponse(req)]
    /\ UNCHANGED <<cfg, now, codes, minted, redeemed, pc, tokens, asked>>

Dispatch == DispatchOf(Paths, Headers)

\* create_access_token called as oauth_token calls it, for the configured client
MintToken ==
    /\ oauth_enabled(cfg)
    /\ Cardinality(tokens) < MaxTokens
    /\ LET made == create_access_token(cfg.client_id, now)
       IN /\ tokens' = tokens \cup {Grant(None, made.access_token)}
          /\ last' = [op |-> "mint", resp |-> made]
    /\ UNCHANGED <<cfg, now, codes, minted, redeemed, pc, asked>>

\* verify_access_token called directly
VerifyOf(presented) ==
    /\ \E token \in presented :
         last' = [op |-> "verify", req |-> token,
                  resp |-> verify_access_token(token, now)]
    /\ UNCHANGED <<cfg, now, codes, minted, redeemed, pc, tokens, asked>>

Verify == VerifyOf(BearerTokens)

\* the time that passes between two requests
Durations == {5, TickMinutes}

Elapse ==
    /\ \E d \in Durations :
         /\ now + d <= MaxNow
         /\ now' = now + d
    /\ last' = [op |-> "tick"]
    /\ UNCHANGED <<cfg, codes, minted, redeemed, pc, tokens, asked>>

NextGate ==
    \/ MintToken
    \/ Verify
    \/ Dispatch
    \/ Elapse

\* the environments without an empty variable and with a password of ASCII
\* characters
InitGate ==
    /\ Init
    /\ cfg.client_id # "" /\ cfg.client_secret # ""
    /\ cfg.auth_password \in {None, "hunter2"}

SpecGate == InitGate /\ [][NextGate]_vars

SpecFlows == InitGate /\ [][NextFlows]_vars

\* the server from the form to the use of the access tokens, well-formed
\* requests, one at a time
Lifetime ==
    [handlers |-> 1,
     record |-> FALSE,
     client_ids |-> {"abc"},
     redirect_uris |-> {CbA},
     states |-> {<<>>},
     response_types |-> {"code"},
     passwords |-> {"hunter2"},
     grant_types |-> {"authorization_code"},
     token_redirect_uris |-> {CbA},
     token_client_ids |-> {"abc"},
     client_secrets |-> {"s3cr3t"}]

\* the access tokens handed out so far, and the headers that present them
HandedOutTokens == {g.token : g \in tokens}

HandedOutHeaders == {[scheme |-> "Bearer", credentials |-> t] : t \in HandedOutTokens}

NextLifetime ==
    \/ AuthorizePostBegin(Lifetime)
    \/ AuthorizePostFinish(Lifetime)
    \/ TokenBegin(Lifetime)
    \/ TokenFinish(Lifetime)
    \/ VerifyOf(HandedOutTokens)
    \/ DispatchOf({<<"/mcp">>}, HandedOutHeaders)
    \/ Elapse

SpecLifetime == InitGate /\ [][NextLifetime]_vars

\* any form posted to /oauth/authorize, and the exchange of the codes by the
\* configured client
Provenance ==
    [handlers |-> 1,
     record |-> FALSE,
     client_ids |-> Wide.client_ids,
     redirect_uris |-> Wide.redirect_uris,
     states |-> {<<>>},
     response_types |-> {"code"},
     passwords |-> Wide.passwords,
     grant_types |-> {"authorization_code"},
     token_redirect_uris |-> {CbA, CbQ},
     token_client_ids |-> {"abc"},
     client_secrets |-> {"s3cr3t"}]

NextProvenance ==
    \/ AuthorizePostBegin(Provenance)
    \/ AuthorizePostFinish(Provenance)
    \/ TokenBegin(Provenance)
    \/ TokenFinish(Provenance)
    \/ Tick

SpecProvenance == Init /\ [][NextProvenance]_vars

\* create_access_token on a clock that counts seconds.  The second reading of
\* the clock is taken a few instructions after the first: it is the same
\* second or a later one.
MaxSecond == 3

MaxLag == 1

IssueToken ==
    /\ oauth_enabled(cfg)
    /\ \E lag \in 0..MaxLag :
         last' = [op |-> "create",
                  req |-> [client_id |-> cfg.client_id,
                           first |-> now, second |-> now + lag],
                  resp |-> ClaimsFromReadings(cfg.client_id, now, now + lag,
                                              SecondsPerMinute)]
    /\ UNCHANGED <<cfg, now, codes, minted, redeemed, pc, tokens, asked>>

Second ==
    /\ now < MaxSecond
    /\ now' = now + 1
    /\ last' = [op |-> "tick"]
    /\ UNCHANGED <<cfg, codes, minted, redeemed, pc, tokens, asked>>

NextIssue == IssueToken \/ Second

SpecIssue == Init /\ [][NextIssue]_vars

-----------------------------------------------------------------------------
(* sonarr_list_series (src/src/mcp_sonarr/http_server.py) *)

\* the largest page_size
MaxPageSize == 500

Max(a, b) == IF a > b THEN a ELSE b
Min(a, b) == IF a < b THEN a ELSE b

\* An Optional[bool] is one of None, "True", "False".
Bool(v) == v = "True"

\* What client.get_all_series() returns: n series.  A title is written as the
\* rank of its lower-cased form among the lower-cased titles.
Series(i) ==
    [id |-> i, title |-> (i * 3) % 7, year |-> 2000 + (i % 3),
     status |-> IF i % 2 = 0 THEN "continuing" ELSE "ended",
     monitored |-> i % 3 # 0]

Library(n) == [i \in 1..n |-> Series(i)]


\* the keys of a list in ascending order, or descending when reversed
RECURSIVE KeysInOrder(_, _)
KeysInOrder(keys, reverse) ==
    IF keys = {} THEN <<>>
    ELSE LET first == CHOOSE k \in keys :
                         \A other \in keys : IF reverse THEN k >= other ELSE k <= other
         IN <<first>> \o KeysInOrder(keys \ {first}, reverse)

\* the key lambdas of the sorts: the title in its collation rank, the year
SortKey(x, sort_by) == IF sort_by = "title" THEN x.title ELSE x.year

RECURSIVE Gather(_, _, _)
Gather(list, sort_by, keys) ==
    IF keys = <<>> THEN <<>>
    ELSE LET HasKey(x) == SortKey(x, sort_by) = Head(keys)
         IN SelectSeq(list, HasKey) \o Gather(list, sort_by, Tail(keys))

\* list.sort(key=..., reverse=...): stable, also when reversed, so the items
\* of one key stay in the order they had
Sort(list, sort_by, reverse) ==
    Gather(list, sort_by,
           KeysInOrder({SortKey(list[i], sort_by) : i \in 1..Len(list)}, reverse))

\* the filters and the sort of sonarr_list_series
Filtered(series, q) ==
    LET HasStatus(x) == x.status = q.status
        HasMonitored(x) == x.monitored = Bool(q.monitored)
        by_status == IF Truthy(q.status) THEN SelectSeq(series, HasStatus) ELSE series
        by_monitored ==
            IF q.monitored # None THEN SelectSeq(by_status, HasMonitored) ELSE by_status
        reverse == q.sort_order = "desc"
    IN CASE q.sort_by = "title" -> Sort(by_monitored, "title", reverse)
         [] q.sort_by = "year" -> Sort(by_monitored, "year", reverse)
         [] OTHER -> by_monitored

\* filtered[start_idx:end_idx] with 0 <= start_idx <= end_idx
Slice(list, start_idx, end_idx) ==
    SubSeq(list, start_idx + 1, Min(end_idx, Len(list)))

\* the pagination without the upper limit of page_size
MutPaginateNoLimit(filtered, q) ==
    LET page == Max(1, q.page)
        page_size == Max(1, q.page_size)
        total_filtered == Len(filtered)
        total_pages ==
            IF total_filtered > 0 THEN (total_filtered + page_size - 1) \div page_size
            ELSE 1
        start_idx == (page - 1) * page_size
        end_idx == start_idx + page_size
    IN [items |-> Slice(filtered, start_idx, end_idx), total |-> total_filtered,
        page |-> page, page_size |-> page_size, total_pages |-> total_pages]

\* the pagination taking page as it is given
MutPaginateAnyPage(filtered, q) ==
    LET page == q.page
        page_size == Min(MaxPageSize, Max(1, q.page_size))
        total_filtered == Len(filtered)
        total_pages ==
            IF total_filtered > 0 THEN (total_filtered + page_size - 1) \div page_size
            ELSE 1
        start_idx == Max(0, (page - 1) * page_size)
        end_idx == Max(0, (page - 1) * page_size + page_size)
    IN [items |-> Slice(filtered, start_idx, end_idx), total |-> total_filtered,
        page |-> page, page_size |-> page_size, total_pages |-> total_pages]

\* "# Pagination" to the return
Paginate(filtered, q) ==
    LET page == Max(1, q.page)
        page_size == Min(MaxPageSize, Max(1, q.page_size))
        total_filtered == Len(filtered)
        total_pages ==
            IF total_filtered > 0 THEN (total_filtered + page_size - 1) \div page_size
            ELSE 1
        start_idx == (page - 1) * page_size
        end_idx == start_idx + page_size
    IN [items |-> Slice(filtered, start_idx, end_idx), total |-> total_filtered,
        page |-> page, page_size |-> page_size, total_pages |-> total_pages]

\* the sizes of the libraries, the pages and the page sizes asked for
MaxSeries == 5
LibrarySizes == {0, 1, MaxSeries, MaxPageSize + 1}
Pages == {-1, 0, 1, 2, 3}
PageSizes == {-5, 0, 1, 2, 50, MaxPageSize, MaxPageSize + 1, 2 * MaxPageSize}

\* the calls of the tool
Requests ==
    [series : LibrarySizes, status : {None, "continuing"}, monitored : {None, "True"},
     sort_by : {"title", "year", "id"}, sort_order : {"asc", "desc"},
     page : Pages, page_size : PageSizes]

Call(q) == [op |-> "call", req |-> q]

ListSeries ==
    /\ last.op = "call"
    /\ last' = [op |-> "list_series", req |-> last.req,
                resp |-> Paginate(Filtered(Library(last.req.series), last.req), last.req)]
    /\ UNCHANGED <<cfg, now, codes, minted, redeemed, pc, tokens, asked>>

-----------------------------------------------------------------------------
(* The authorization-code store called directly *)

StoreClientIds == {"abc", "other"}

StoreIssue ==
    /\ Cardinality(DOMAIN minted) < MaxCodes
    /\ \E c \in StoreClientIds, r \in Wide.redirect_uris :
         LET code == NewCode
         IN /\ codes' = generate_authorization_code(codes, code, c, r, now)
            /\ minted' = Issued(minted, code, c, r, now)
            /\ last' = [op |-> "issue", req |-> [client_id |-> c, redirect_uri |-> r],
                        code |-> code]
    /\ UNCHANGED <<cfg, now, redeemed, pc, tokens, asked>>

StoreRedeem ==
    /\ \E k \in Codes, c \in StoreClientIds, r \in Wide.token_redirect_uris :
         LET v == validate_authorization_code(codes, k, c, r, now)
         IN /\ codes' = v.store
            /\ redeemed' = IF v.ok THEN redeemed \cup {k} ELSE redeemed
            /\ last' = [op |-> "redeem",
                        req |-> [code |-> k, client_id |-> c, redirect_uri |-> r],
                        result |-> v.ok]
    /\ UNCHANGED <<cfg, now, minted, pc, tokens, asked>>

NextStore ==
    \/ StoreIssue
    \/ StoreRedeem
    \/ Tick

InitStore ==
    /\ Init
    /\ cfg.client_id = "abc" /\ cfg.client_secret = "s3cr3t"
    /\ cfg.auth_password = "hunter2" /\ cfg.simple_auth_token = None

SpecStore == InitStore /\ [][NextStore]_vars

\* one call of the tool, of every request
InitSeries ==
    /\ cfg \in Configs
    /\ cfg.client_id = "abc" /\ cfg.client_secret = "s3cr3t"
    /\ cfg.auth_password = "hunter2" /\ cfg.simple_auth_token = None
    /\ now = 0
    /\ codes = <<>>
    /\ minted = <<>>
    /\ redeemed = {}
    /\ pc = Idle
    /\ tokens = {}
    /\ asked = {}
    /\ \E q \in Requests : last = Call(q)

SpecSeries == InitSeries /\ [][ListSeries]_vars

-----------------------------------------------------------------------------
(* Properties of the authorization-code store *)

\* the request of the last step names a code that was handed out, with the
\* client_id and redirect_uri it was handed out for
OwnPair(req) ==
    /\ req.code \in DOMAIN minted
    /\ req.client_id = minted[req.code].client_id
    /\ req.redirect_uri = minted[req.code].redirect_uri

Expired(code) == now > minted[code].expires_at

\* C1 (single use): a token request is answered 200, that is its
\* validate_authorization_code call returns true, only for a code for which no
\* earlier call returned true; so of all the calls made for one code, in any
\* order and with handlers suspended in between, at most one returns true and
\* every call after it returns false.
C1_SingleUse ==
    [][(last'.op = "token" /\ last'.resp.status = 200)
          => last'.req.code \notin redeemed]_vars

\* a second exchange of a redeemed, unexpired code with its own pair is refused
\* while another token request is suspended
C1_Witness ==
    /\ last.op = "token"
    /\ last.resp.status = 400
    /\ last.resp.error = "invalid_grant"
    /\ OwnPair(last.req)
    /\ last.req.code \in redeemed
    /\ ~Expired(last.req.code)
    /\ pc.token_form > 0

\* C2 (expiry): a validate_authorization_code call made at a time later than
\* the expires_at the code was issued with returns false, whatever happened
\* before and whatever pair it is called with.
C2_Expiry ==
    (last.op = "redeem" /\ last.req.code \in DOMAIN minted /\ Expired(last.req.code))
        => ~last.result

\* the first redemption of an expired code, with its own pair, fails
C2_Witness ==
    /\ last.op = "redeem"
    /\ OwnPair(last.req)
    /\ Expired(last.req.code)
    /\ last.req.code \notin redeemed
    /\ ~last.result

\* C3 (binding): validate_authorization_code returns true only when called with
\* the client_id and the redirect_uri the code was issued with.
C3_Binding ==
    (last.op = "redeem" /\ last.result) => OwnPair(last.req)

\* an unused, unexpired code presented with another client_id is refused
C3_Witness ==
    /\ last.op = "redeem"
    /\ ~last.result
    /\ last.req.code \in DOMAIN codes
    /\ ~codes[last.req.code].used
    /\ ~Expired(last.req.code)
    /\ last.req.client_id # codes[last.req.code].client_id
    /\ last.req.redirect_uri = codes[last.req.code].redirect_uri

\* the call of this step presents an unused, unexpired code of the store with a
\* client_id or a redirect_uri that is not the entry's
MismatchedAttempt ==
    /\ last'.op = "redeem"
    /\ last'.req.code \in DOMAIN codes
    /\ ~codes[last'.req.code].used
    /\ ~(now > codes[last'.req.code].expires_at)
    /\ \/ last'.req.client_id # codes[last'.req.code].client_id
       \/ last'.req.redirect_uri # codes[last'.req.code].redirect_uri

\* C4: a call with a mismatched client_id or redirect_uri on an unexpired,
\* unused code returns false and leaves the store as it was, and the code is
\* then still redeemed by a call with its own pair.
C4_MismatchKeepsCode ==
    [][MismatchedAttempt =>
          LET k == last'.req.code
          IN /\ ~last'.result
             /\ codes' = codes
             /\ validate_authorization_code(codes', k, minted[k].client_id,
                                            minted[k].redirect_uri, now').ok]_vars

\* an unused, unexpired code was presented with its client_id and another
\* redirect_uri: the call failed and the entry is still there, unused
C4_Witness ==
    /\ last.op = "redeem"
    /\ ~last.result
    /\ last.req.code \in DOMAIN codes
    /\ ~codes[last.req.code].used
    /\ ~Expired(last.req.code)
    /\ last.req.client_id = codes[last.req.code].client_id
    /\ last.req.redirect_uri # codes[last.req.code].redirect_uri
    /\ Cardinality(DOMAIN codes) = 2

-----------------------------------------------------------------------------
(* What the client reads in a URL: urllib.parse.urlsplit and parse_qs *)

\* the index of the first chunk of s equal to c, 0 when there is none
IndexOf(s, c) ==
    IF \E i \in 1..Len(s) : s[i] = c
    THEN CHOOSE i \in 1..Len(s) : s[i] = c /\ \A j \in 1..(i - 1) : s[j] # c
    ELSE 0

Before(s, c) == IF IndexOf(s, c) = 0 THEN s ELSE SubSeq(s, 1, IndexOf(s, c) - 1)

After(s, c) == IF IndexOf(s, c) = 0 THEN <<>> ELSE SubSeq(s, IndexOf(s, c) + 1, Len(s))

RECURSIVE SplitOn(_, _)
SplitOn(s, c) ==
    IF IndexOf(s, c) = 0 THEN <<s>> ELSE <<Before(s, c)>> \o SplitOn(After(s, c), c)

UnquoteChunk(c) ==
    CASE c = "%3F" -> "?"
      [] c = "%26" -> "&"
      [] c = "%3D" -> "="
      [] c = "%23" -> "#"
      [] OTHER -> c

Unquote(s) == [i \in 1..Len(s) |-> UnquoteChunk(s[i])]

\* the query component: between the first ? and the fragment
UrlQuery(url) == After(Before(url, "#"), "?")

\* the value of the query parameter called name, NoneUrl when there is none
QueryParam(url, name) ==
    LET pairs == SplitOn(UrlQuery(url), "&")
        hits == {i \in 1..Len(pairs) : Before(pairs[i], "=") = <<name>>}
    IN IF hits = {} THEN NoneUrl
       ELSE Unquote(After(pairs[CHOOSE i \in hits : \A j \in hits : i <= j], "="))

-----------------------------------------------------------------------------
(* Properties of the flow *)

\* the step answers a GET of the form for the configured client
GetOfForm ==
    /\ last'.op = "authorize_get"
    /\ oauth_enabled(cfg)
    /\ last'.req.client_id = cfg.client_id
    /\ last'.req.response_type = "code"

\* the step answers a POST of the configured client_id and password
PostOfPassword ==
    /\ last'.op = "authorize_post"
    /\ oauth_enabled(cfg)
    /\ last'.req.client_id = cfg.client_id
    /\ last'.req.password = cfg.auth_password

\* the step answers a token request with the configured credentials
TokenRequest ==
    /\ last'.op = "token"
    /\ oauth_enabled(cfg)
    /\ last'.req.grant_type = "authorization_code"
    /\ last'.req.client_id = cfg.client_id
    /\ last'.req.client_secret = cfg.client_secret

\* ... for a code of the store, unused and unexpired, with its redirect_uri
FirstExchange ==
    /\ TokenRequest
    /\ last'.req.code \in DOMAIN codes
    /\ ~codes[last'.req.code].used
    /\ ~(now > codes[last'.req.code].expires_at)
    /\ last'.req.redirect_uri = codes[last'.req.code].redirect_uri

\* ... for a code that was exchanged before
RepeatedExchange ==
    /\ TokenRequest
    /\ last'.req.code \in redeemed

FlowStep ==
    /\ GetOfForm => last'.resp.kind = "form" /\ last'.resp.status = 200
    /\ PostOfPassword =>
         /\ last'.resp.status = 302
         /\ last'.code \notin DOMAIN minted
         /\ QueryParam(last'.resp.location, "code") = <<last'.code>>
         /\ QueryParam(last'.resp.location, "state") = last'.req.state
    /\ FirstExchange =>
         /\ last'.resp.status = 200
         /\ last'.resp.token_type = "Bearer"
         /\ last'.resp.expires_in = cfg.access_token_expire_minutes * 60
    /\ RepeatedExchange =>
         /\ last'.resp.status = 400
         /\ last'.resp.error = "invalid_grant"

\* C5 (end-to-end flow): with OAuth configured, the GET of the form is answered
\* 200, the POST of the correct password 302 with a fresh code and the submitted
\* state, the exchange of that code with the configured credentials and the
\* same redirect_uri 200 with token_type Bearer and expires_in = 60 * TTL, and
\* a repeated exchange 400 invalid_grant.
C5_EndToEnd == [][FlowStep]_vars

\* the flow where it does work: a password compare_digest accepts and a
\* redirect_uri without a query of its own
PlainFlow ==
    /\ cfg.auth_password \notin NonAscii
    /\ PostOfPassword => IndexOf(last'.req.redirect_uri, "?") = 0

FlowOfPlainRequests == [][PlainFlow => FlowStep]_vars

\* C6: a token is handed out only in a token request whose code the call of
\* validate_authorization_code marks used in that very step; a code enters the
\* store only in a POST /oauth/authorize of the configured client_id and
\* password; no code yields two tokens, and there are never more tokens than
\* codes.
C6_TokenNeedsCode ==
    [][/\ tokens' # tokens =>
            /\ last'.op = "token"
            /\ last'.req.code \in DOMAIN minted
            /\ last'.req.code \in DOMAIN codes
            /\ ~codes[last'.req.code].used
            /\ codes'[last'.req.code].used
       /\ minted' # minted =>
            /\ last'.op = "authorize_post"
            /\ last'.req.client_id = cfg.client_id
            /\ last'.req.password = cfg.auth_password
       /\ \A g \in tokens' : g.n = 1 /\ g.code \in DOMAIN minted'
       /\ Cardinality(tokens') <= Cardinality(DOMAIN minted')]_vars

\* every code issued has been exchanged for a token
C6_Witness ==
    /\ Cardinality(DOMAIN minted) = MaxCodes
    /\ Cardinality(tokens) = MaxCodes
    /\ last.op = "token"
    /\ last.resp.status = 200

Present(v) == v # None /\ v # ""

\* C7: oauth_enabled is true iff client id, client secret and password are all
\* set, auth_enabled iff oauth_enabled or a fallback token is set; with
\* oauth_enabled false every request to /oauth/authorize and /oauth/token is
\* answered 501 oauth_not_configured without its form being read, and no code
\* is ever issued or redeemed and no token handed out.
C7_NotConfigured ==
    /\ oauth_enabled(cfg) <=>
         (Present(cfg.client_id) /\ Present(cfg.client_secret) /\ Present(cfg.auth_password))
    /\ auth_enabled(cfg) <=> (oauth_enabled(cfg) \/ Present(cfg.simple_auth_token))
    /\ ~(Present(cfg.client_id) /\ Present(cfg.client_secret) /\ Present(cfg.auth_password)) =>
         /\ last.op \in {"authorize_get", "authorize_post", "token"} =>
               last.resp = [kind |-> "json", status |-> 501, error |-> "oauth_not_configured"]
         /\ last.op # "await"
         /\ pc = Idle
         /\ codes = <<>> /\ minted = <<>> /\ redeemed = {} /\ tokens = {}

\* only the password is missing, a fallback token is set: the token endpoint
\* has answered 501
C7_Witness ==
    /\ Present(cfg.client_id) /\ Present(cfg.client_secret)
    /\ ~Present(cfg.auth_password)
    /\ Present(cfg.simple_auth_token)
    /\ last.op = "token"
    /\ last.resp.status = 501

-----------------------------------------------------------------------------
(* Properties of the authorization endpoint *)

InvalidClient400 == [kind |-> "json", status |-> 400, error |-> "invalid_client"]

UnsupportedResponseType ==
    [kind |-> "json", status |-> 400, error |-> "unsupported_response_type"]

\* the step answers a GET of /oauth/authorize with OAuth configured
GetStep == last'.op = "authorize_get" /\ oauth_enabled(cfg)

\* the same for a POST
PostStep == last'.op = "authorize_post" /\ oauth_enabled(cfg)

StoreUnchanged == codes' = codes /\ minted' = minted

\* C8 as stated: the form is rendered only for the configured client_id and a
\* response_type parameter that is "code"; another client_id gives 400
\* invalid_client, and otherwise a response_type that is anything else, or is
\* not supplied, gives 400 unsupported_response_type; the store is unchanged.
C8_Original ==
    [][GetStep =>
          /\ StoreUnchanged
          /\ IF last'.req.client_id # cfg.client_id
             THEN last'.resp = InvalidClient400
             ELSE IF last'.req.response_type # "code"
             THEN last'.resp = UnsupportedResponseType
             ELSE last'.resp.kind = "form" /\ last'.resp.status = 200]_vars

\* C8 as amended: a response_type that is not supplied counts as "code"; the
\* form is rendered for the configured client_id and a response_type that is
\* "code" or absent, 400 unsupported_response_type is the answer to every other
\* response_type, 400 invalid_client to every other client_id, and the store is
\* unchanged.
C8_GetOfForm ==
    [][GetStep =>
          /\ StoreUnchanged
          /\ IF last'.req.client_id # cfg.client_id
             THEN last'.resp = InvalidClient400
             ELSE IF last'.req.response_type \notin {"code", None}
             THEN last'.resp = UnsupportedResponseType
             ELSE last'.resp.kind = "form" /\ last'.resp.status = 200]_vars

\* a GET without response_type was answered with the form, a code being in the
\* store
C8_Witness ==
    /\ last.op = "authorize_get"
    /\ oauth_enabled(cfg)
    /\ last.req.client_id = cfg.client_id
    /\ last.req.response_type = None
    /\ last.resp.kind = "form"
    /\ last.resp.status = 200
    /\ codes # <<>>

\* C9: a POST of the configured client_id with any other password, an empty or
\* a missing one included, is answered with the form and 401 and leaves the
\* store as it was; a POST of another client_id is answered 400 invalid_client
\* and leaves the store as it was.
C9_RejectedPost ==
    [][PostStep =>
          /\ Get(last'.req.client_id, "") # cfg.client_id =>
                last'.resp = InvalidClient400 /\ StoreUnchanged
          /\ (/\ Get(last'.req.client_id, "") = cfg.client_id
              /\ Get(last'.req.password, "") # cfg.auth_password) =>
                /\ last'.resp.kind = "form"
                /\ last'.resp.status = 401
                /\ StoreUnchanged]_vars

\* whatever the answer, a POST that does not carry the configured client_id and
\* password changes no code and is not answered with a redirect
RejectedPostKeepsStore ==
    [][(PostStep /\ ~PostOfPassword) => StoreUnchanged /\ last'.resp.status # 302]_vars

\* C10: a POST of the configured client_id and password adds exactly one code
\* to the store, bound to the submitted client_id and redirect_uri, and is
\* answered 302 to redirect_uri with the query parameter code equal to the new
\* code and the query parameter state equal to the submitted state when that is
\* not empty, absent otherwise.
C10_IssuingPost ==
    [][PostOfPassword =>
          /\ last'.resp.status = 302
          /\ DOMAIN minted' \ DOMAIN minted = {last'.code}
          /\ DOMAIN codes' \ DOMAIN codes = {last'.code}
          /\ codes'[last'.code].client_id = last'.req.client_id
          /\ codes'[last'.code].redirect_uri = last'.req.redirect_uri
          /\ ~codes'[last'.code].used
          /\ Before(last'.resp.location, "?") = Before(last'.req.redirect_uri, "?")
          /\ QueryParam(last'.resp.location, "code") = <<last'.code>>
          /\ QueryParam(last'.resp.location, "state") =
                IF last'.req.state # <<>> THEN last'.req.state ELSE NoneUrl]_vars

\* the issuing POST where it works: a configured password of ASCII characters
\* and a redirect_uri without a query of its own
IssuingPlainPost ==
    [][(PostOfPassword /\ PlainFlow) =>
          /\ last'.resp.status = 302
          /\ DOMAIN minted' \ DOMAIN minted = {last'.code}
          /\ DOMAIN codes' \ DOMAIN codes = {last'.code}
          /\ codes'[last'.code].client_id = last'.req.client_id
          /\ codes'[last'.code].redirect_uri = last'.req.redirect_uri
          /\ ~codes'[last'.code].used
          /\ Before(last'.resp.location, "?") = Before(last'.req.redirect_uri, "?")
          /\ QueryParam(last'.resp.location, "code") = <<last'.code>>
          /\ QueryParam(last'.resp.location, "state") =
                IF last'.req.state # <<>> THEN last'.req.state ELSE NoneUrl]_vars

-----------------------------------------------------------------------------
(* Properties of the token endpoint *)

InvalidClient401 == [kind |-> "json", status |-> 401, error |-> "invalid_client"]

\* the step answers a POST of /oauth/token with OAuth configured
TokenStep == last'.op = "token" /\ oauth_enabled(cfg)

CredentialsMatch(req) ==
    req.client_id = cfg.client_id /\ req.client_secret = cfg.client_secret

\* a form field that was sent and holds ASCII characters only
Ascii(v) == v # None /\ v \notin NonAscii

\* C11: with OAuth configured, every token request with
\* grant_type=authorization_code whose client_id and client_secret do not both
\* equal the configured values is answered 401 invalid_client, whether the
\* fields are wrong, empty or absent, and ends in no other outcome.
C11_InvalidClient ==
    [][(/\ TokenStep
        /\ last'.req.grant_type = "authorization_code"
        /\ ~CredentialsMatch(last'.req)) => last'.resp = InvalidClient401]_vars

\* the same where it works: both fields sent, in ASCII characters
InvalidClientOfAsciiFields ==
    [][(/\ TokenStep
        /\ last'.req.grant_type = "authorization_code"
        /\ Ascii(last'.req.client_id) /\ Ascii(last'.req.client_secret)
        /\ ~CredentialsMatch(last'.req)) =>
          /\ last'.resp = InvalidClient401
          /\ UNCHANGED <<codes, tokens, redeemed>>]_vars

\* the answer the order of checks of C12 gives to a token request, the call of
\* validate_authorization_code being made in the state before the step
AnswerInOrder(req, resp) ==
    IF req.grant_type # "authorization_code"
    THEN resp = JsonError(400, "unsupported_grant_type")
    ELSE IF ~CredentialsMatch(req) THEN resp = InvalidClient401
    ELSE IF ~validate_authorization_code(codes, req.code, req.client_id,
                                         req.redirect_uri, now).ok
    THEN resp = JsonError(400, "invalid_grant")
    ELSE resp.status = 200 /\ resp.kind = "token"

\* C12: the answer of the token endpoint is 501 oauth_not_configured when OAuth
\* is not configured; else 400 unsupported_grant_type when grant_type is not
\* "authorization_code"; else 401 invalid_client when the credentials do not
\* match; else 400 invalid_grant when validate_authorization_code returns
\* false; else 200 with an access token.  A request failing several checks is
\* answered by the first of them.
C12_Precedence ==
    [][last'.op = "token" =>
          IF ~oauth_enabled(cfg) THEN last'.resp = NotConfigured
          ELSE AnswerInOrder(last'.req, last'.resp)]_vars

\* the same where it works: client_id and client_secret sent, in ASCII
\* characters, or a grant_type that is refused before they are looked at
PrecedenceOfAsciiFields ==
    [][(/\ last'.op = "token"
        /\ oauth_enabled(cfg) =>
              \/ last'.req.grant_type # "authorization_code"
              \/ Ascii(last'.req.client_id) /\ Ascii(last'.req.client_secret)) =>
          IF ~oauth_enabled(cfg) THEN last'.resp = NotConfigured
          ELSE AnswerInOrder(last'.req, last'.resp)]_vars

-----------------------------------------------------------------------------
(* Properties of verify_access_token and of the middleware *)

\* the token is one create_access_token made, signature and payload untouched
HandedOut(token) == \E g \in tokens : g.token = token

\* the signature verifies under the signing secret of the server
SignatureVerifies(token) == IsJwt(token) /\ token.key = cfg.jwt_secret

\* C13: verify_access_token returns the claims of the token, sub being the
\* client_id create_access_token was given, if and only if the signature of the
\* token verifies under the signing secret of the server and exp has not
\* passed; it returns None for a token whose lifetime has elapsed, for a token
\* signed with another secret and for a token whose signature was altered.
C13_Verification ==
    last.op = "verify" =>
        LET token == last.req
        IN /\ last.resp.ok <=> (SignatureVerifies(token) /\ ~(now > token.exp))
           /\ last.resp.ok =>
                /\ HandedOut(token)
                /\ last.resp.claims = Payload(token)
                /\ last.resp.claims.sub = cfg.client_id
           /\ (IsJwt(token) /\ now > token.iat + cfg.access_token_expire_minutes)
                => last.resp = Nothing
           /\ (IsJwt(token) /\ token.key # cfg.jwt_secret) => last.resp = Nothing

\* a token the server handed out is verified after its lifetime and refused
C13_Witness ==
    /\ last.op = "verify"
    /\ HandedOut(last.req)
    /\ now > last.req.exp
    /\ last.resp = Nothing

\* a token the server handed out is verified at its exp and accepted
VerifiedAtExp ==
    /\ last.op = "verify"
    /\ HandedOut(last.req)
    /\ now = last.req.exp
    /\ last.resp.ok

\* the step before was the middleware answering a request with authentication
\* configured
Gated == last.op = "dispatch" /\ auth_enabled(cfg)

\* a path the middleware asks a credential for: trailing slashes apart, it is
\* neither in EXEMPT_PATHS nor the root
Guarded(path) == rstrip(path) \notin EXEMPT_PATHS /\ rstrip(path) # <<>>

\* the token is the configured static fallback token
EqualsFallback(token) ==
    /\ Truthy(cfg.simple_auth_token)
    /\ ~IsJwt(token)
    /\ token.text = cfg.simple_auth_token

\* the token is a JWT signed by the server whose exp has not passed
ValidJwt(token) == SignatureVerifies(token) /\ ~(now > token.exp)

InvalidToken401 == Challenge("invalid_token", RealmInvalidToken)

\* the answer C14 gives to a Bearer token
AnswerToBearer(token, resp) ==
    IF EqualsFallback(token)
    THEN resp = Forwarded(Some([sub |-> "bearer-token", scope |-> "full"]))
    ELSE IF ValidJwt(token) THEN resp = Forwarded(Some(Payload(token)))
    ELSE resp = InvalidToken401

\* C14: with authentication configured, a request on a guarded path with
\* "Authorization: Bearer <token>" is handed to the next handler if and only if
\* the token equals the configured static fallback token (auth_claims
\* sub="bearer-token", scope="full") or, failing that, verifies as a JWT
\* (auth_claims = its payload); every other such request is answered 401
\* invalid_token and not handed on.  An expired JWT is refused.
C14_Acceptance ==
    (Gated /\ Guarded(last.req.path) /\ StartsWithBearer(last.req.header))
        => AnswerToBearer(last.req.header.credentials, last.resp)

\* the same where it works: a token of ASCII characters, or no fallback token
AcceptanceOfAsciiTokens ==
    (/\ Gated /\ Guarded(last.req.path) /\ StartsWithBearer(last.req.header)
     /\ \/ ~Truthy(cfg.simple_auth_token)
        \/ IsJwt(last.req.header.credentials)
        \/ Ascii(last.req.header.credentials.text))
        => AnswerToBearer(last.req.header.credentials, last.resp)

\* an expired token of the server is answered 401 invalid_token
ExpiredJwtRefused ==
    /\ Gated /\ Guarded(last.req.path) /\ StartsWithBearer(last.req.header)
    /\ HandedOut(last.req.header.credentials)
    /\ now > last.req.header.credentials.exp
    /\ last.resp = InvalidToken401

Unauthorized401 == Challenge("unauthorized", Realm)

ValidCredential(header) ==
    /\ StartsWithBearer(header)
    /\ EqualsFallback(header.credentials) \/ ValidJwt(header.credentials)

\* the path, trailing slashes apart, is one of the exemption set
InExemptionSet(path) == rstrip(path) \in EXEMPT_PATHS

\* C16: with authentication configured, a request without a valid credential
\* is handed to the next handler only if its path is one of the exemption set
\* (/health, /info, /debug/series, /oauth/authorize, /oauth/token,
\* /.well-known/oauth-authorization-server); on every other path it is answered
\* 401.
C16_ExemptionSet ==
    (Gated /\ ~ValidCredential(last.req.header)) =>
        /\ last.resp.kind = "forwarded" => InExemptionSet(last.req.path)
        /\ ~InExemptionSet(last.req.path) => last.resp.status = 401

\* what holds of every request without a valid credential: it is handed on
\* only on a path of the exemption set or on the root path
UnauthenticatedForwardedOnlyIfExempt ==
    (Gated /\ ~ValidCredential(last.req.header) /\ last.resp.kind = "forwarded")
        => ~Guarded(last.req.path)

\* a request for the root path without a header is handed on
RootForwarded ==
    /\ Gated
    /\ last.req.path = <<"/">>
    /\ last.req.header = NoHeader
    /\ last.resp.kind = "forwarded"

\* C17: when no authentication is configured (OAuth not fully configured and
\* no fallback token), the middleware hands every request on every path to the
\* next handler, whatever its Authorization header, and never answers 401.
C17_AuthDisabled ==
    (last.op = "dispatch" /\ ~auth_enabled(cfg)) => last.resp = Forwarded(Nothing)

\* with client_id and client_secret but no password and no fallback token, a
\* request on a guarded path with a Bearer token that is no credential is
\* handed on
C17_Witness ==
    /\ last.op = "dispatch"
    /\ Truthy(cfg.client_id) /\ Truthy(cfg.client_secret)
    /\ ~auth_enabled(cfg)
    /\ Guarded(last.req.path)
    /\ last.req.header = [scheme |-> "Bearer", credentials |-> Opaque("guess")]
    /\ last.resp = Forwarded(Nothing)

-----------------------------------------------------------------------------
(* What the token endpoint tells about the credentials *)

\* every answer of the token endpoint is TokenAnswer of the form, and the store
\* it leaves is TokenStore of the form
TokenFinishAnswers ==
    [][TokenStep =>
          /\ last'.resp = TokenAnswer(last'.req)
          /\ codes' = TokenStore(last'.req)]_vars

\* the forms that differ from f in client_id and client_secret only, with the
\* configured client_id and a client_secret that is not the configured one
WithWrongSecret(f) ==
    { [f EXCEPT !.client_id = cfg.client_id, !.client_secret = s] :
         s \in Wide.client_secrets \ {cfg.client_secret} }

\* the form carries a client_id that is not the configured one, and the
\* configured client_secret
WrongIdOnly(f) ==
    f.client_id # cfg.client_id /\ f.client_secret = cfg.client_secret

\* C18: of two token requests that differ only in that one carries a wrong
\* client_id with the right client_secret and the other the right client_id
\* with a wrong client_secret, the answers are the same (401 invalid_client)
\* and so are the states they leave.
C18_SameAnswer ==
    [][(TokenStep /\ WrongIdOnly(last'.req)) =>
          \A g \in WithWrongSecret(last'.req) :
             /\ TokenAnswer(g) = last'.resp
             /\ TokenStore(g) = codes'
             /\ UNCHANGED <<codes, tokens, redeemed>>]_vars

\* the same where it works: the wrong client_id and the wrong client_secret
\* are sent, in ASCII characters
SameAnswerOfAsciiFields ==
    [][(TokenStep /\ WrongIdOnly(last'.req) /\ Ascii(last'.req.client_id)) =>
          \A g \in WithWrongSecret(last'.req) :
             Ascii(g.client_secret) =>
                /\ TokenAnswer(g) = last'.resp
                /\ TokenStore(g) = codes'
                /\ UNCHANGED <<codes, tokens, redeemed>>]_vars

\* what the answer tells: to a request without a client_secret field, 401 says
\* that the client_id sent was wrong and 500 that it was right (or was itself
\* absent or not ASCII)
ClientIdOracle ==
    [][(TokenStep
          /\ last'.req.grant_type = "authorization_code"
          /\ last'.req.client_secret = None) =>
          IF Ascii(last'.req.client_id) /\ last'.req.client_id # cfg.client_id
          THEN last'.resp = InvalidClient401
          ELSE last'.resp = ServerError]_vars

-----------------------------------------------------------------------------
(* The order of the steps of an authorization flow *)

\* the GET requests recorded for the flow of the submitted form f: the same
\* client_id, redirect_uri and state
AskedFor(f) ==
    { a \in asked : /\ a.client_id = Get(f.client_id, "")
                    /\ a.redirect_uri = f.redirect_uri
                    /\ a.state = f.state }

\* FORM_DISPLAYED: a GET with the configured client_id and response_type "code"
\* was answered with the form
FormDisplayed(f) ==
    \E a \in AskedFor(f) :
        a.displayed /\ a.client_id = cfg.client_id /\ a.response_type = "code"

\* CODE_ISSUED: the step answers a POST with the redirect that carries a code
CodeIssued == last'.op = "authorize_post" /\ oauth_enabled(cfg) /\ last'.resp.status = 302

\* C19: a flow reaches CODE_ISSUED only through FORM_DISPLAYED and SUBMITTED: a
\* code is issued to a POST only if the form of its flow was displayed before,
\* by a GET with the configured client_id and response_type "code"; so it is
\* issued neither for a flow whose form was never displayed nor for a flow that
\* asked for another response_type.
C19_FlowOrder == [][CodeIssued => FormDisplayed(last'.req)]_vars

\* a code was issued to a flow whose only GET asked for response_type "token"
\* and was refused
CodeAfterRefusedGet ==
    /\ last.op = "authorize_post"
    /\ oauth_enabled(cfg)
    /\ last.resp.status = 302
    /\ AskedFor(last.req) # {}
    /\ \A a \in AskedFor(last.req) : a.response_type = "token" /\ ~a.displayed

\* what orders the steps: a POST is answered only after its form was read, and
\* a code is issued only to a POST (every code of the store is one a POST was
\* answered with)
CodeOnlyFromPost ==
    [][(DOMAIN minted' # DOMAIN minted) =>
          /\ CodeIssued
          /\ pc.authorize_form > 0
          /\ PostOfPassword]_vars

-----------------------------------------------------------------------------
(* Properties of sonarr_list_series *)

\* page_size brought into 1..MaxPageSize
Clamped(page_size) ==
    IF page_size < 1 THEN 1
    ELSE IF page_size > MaxPageSize THEN MaxPageSize
    ELSE page_size

\* C21: for every page and page_size, the page returned is max(1, page) and
\* the page_size returned is page_size brought into 1..500; the items are those
\* of the filtered list from index (page-1)*page_size up to, not including,
\* page*page_size, so never more than page_size and never more than 500;
\* total is the length of the filtered list and total_pages is
\* ceil(total / page_size), or 1 when total is 0.
C21_Pagination ==
    last.op = "list_series" =>
        LET q == last.req
            r == last.resp
            filtered == Filtered(Library(q.series), q)
            page == IF q.page > 1 THEN q.page ELSE 1
            page_size == Clamped(q.page_size)
            first == (page - 1) * page_size
            inside == {i \in 1..Len(filtered) : first < i /\ i <= page * page_size}
        IN /\ r.page = page
           /\ r.page_size = page_size
           /\ Len(r.items) = Cardinality(inside)
           /\ \A k \in 1..Len(r.items) : r.items[k] = filtered[first + k]
           /\ Len(r.items) <= page_size /\ Len(r.items) <= MaxPageSize
           /\ r.total = Len(filtered)
           /\ IF r.total = 0 THEN r.total_pages = 1
              ELSE /\ r.total_pages * page_size >= r.total
                   /\ (r.total_pages - 1) * page_size < r.total

\* of a library of 501 series, a page_size of 1000 returns the first 500, in 2
\* pages
C21_Witness ==
    /\ last.op = "list_series"
    /\ last.req.page_size = 2 * MaxPageSize
    /\ last.req.page = 1
    /\ last.resp.total = MaxPageSize + 1
    /\ Len(last.resp.items) = MaxPageSize
    /\ last.resp.page_size = MaxPageSize
    /\ last.resp.total_pages = 2

-----------------------------------------------------------------------------
(* More properties of the authorization-code store *)

\* the step before was a validate_authorization_code call for a code handed out
RedeemOfIssued == last.op = "redeem" /\ last.req.code \in DOMAIN minted

\* C22 as stated: validate_authorization_code never returns true when the time
\* is not strictly earlier than expires_at, in particular not at expires_at.
C22_Original ==
    (RedeemOfIssued /\ ~(now < minted[last.req.code].expires_at)) => ~last.result

\* C22 as amended: validate_authorization_code returns true only at a time
\* that is not later than expires_at; at expires_at itself the code is still
\* redeemable, so a call made then with the pair of the code finds it redeemed
\* before or redeems it.
C22_RedeemableUntil ==
    RedeemOfIssued =>
        /\ last.result => ~(now > minted[last.req.code].expires_at)
        /\ (now = minted[last.req.code].expires_at /\ OwnPair(last.req))
              => last.req.code \in redeemed

\* a code is redeemed at its expires_at
C22_Witness ==
    /\ RedeemOfIssued
    /\ now = minted[last.req.code].expires_at
    /\ OwnPair(last.req)
    /\ last.result

\* the step is the validate_authorization_code call for code k that returns true
RedeemsNow(k) == last'.op = "redeem" /\ last'.req.code = k /\ last'.result

\* C23: the used flag of an entry changes at most once while the entry is in
\* the store, from false to true, and only in the validate_authorization_code
\* call for its code that returns true; that call finds the flag false; an
\* entry enters the store with the flag false, under a code never used before.
C23_UsedOnce ==
    [][/\ \A k \in DOMAIN codes \cap DOMAIN codes' :
             /\ codes[k].used => codes'[k].used
             /\ (~codes[k].used /\ codes'[k].used) => RedeemsNow(k)
             /\ RedeemsNow(k) => (~codes[k].used /\ codes'[k].used)
       /\ \A k \in DOMAIN codes' \ DOMAIN codes :
             ~codes'[k].used /\ k \notin DOMAIN minted]_vars

\* a code was redeemed and is marked used while another entry is not
C23_Witness ==
    /\ last.op = "redeem"
    /\ last.result
    /\ codes[last.req.code].used
    /\ \E k \in DOMAIN codes : ~codes[k].used

\* the entry of code k is used, or the time is later than its expires_at
Spent(store, k, t) == store[k].used \/ t > store[k].expires_at

\* C24 as stated: an entry that is expired or used is removed by the operation
\* that made it so; the store never holds an entry with used = true or with an
\* expires_at in the past.
C24_Original == \A k \in DOMAIN codes : ~Spent(codes, k, now)

\* C24 as amended: an entry that is expired or used stays in the store until
\* the next validate_authorization_code call for its code, which removes it and
\* returns false, or, when it is expired, until the next
\* generate_authorization_code call, which leaves no expired entry behind; no
\* other entry is ever removed.
C24_RemovedLater ==
    [][/\ \A k \in DOMAIN codes :
             /\ (last'.op = "redeem" /\ last'.req.code = k /\ Spent(codes, k, now))
                   => (~last'.result /\ k \notin DOMAIN codes')
             /\ k \notin DOMAIN codes' => Spent(codes, k, now)
       /\ last'.op = "issue" =>
             \A k \in DOMAIN codes' : ~(now > codes'[k].expires_at)]_vars

\* a call for a code that was redeemed and has not expired returned false and
\* removed the entry, while the store holds an expired entry
C24_Witness ==
    /\ last.op = "redeem"
    /\ ~last.result
    /\ last.req.code \in redeemed
    /\ ~Expired(last.req.code)
    /\ last.req.code \notin DOMAIN codes
    /\ \E k \in DOMAIN codes : now > codes[k].expires_at

\* C25: generate_authorization_code adds exactly one entry, under a new code,
\* with used = false and expires_at = now + 10 minutes; it removes every other
\* entry whose expires_at is earlier than now and leaves every other entry as
\* it was, so that the store holds no expired entry when it returns and a code
\* that was unexpired and unused before is redeemable after.
C25_IssueFrame ==
    [][last'.op = "issue" =>
          LET new == last'.code
          IN /\ new \notin DOMAIN codes
             /\ codes'[new] = [client_id |-> last'.req.client_id,
                               redirect_uri |-> last'.req.redirect_uri,
                               expires_at |-> now + 10, used |-> FALSE]
             /\ DOMAIN codes' =
                   {new} \cup {k \in DOMAIN codes : ~(codes[k].expires_at < now)}
             /\ \A k \in DOMAIN codes' \ {new} : codes'[k] = codes[k]
             /\ \A k \in DOMAIN codes' : ~(codes'[k].expires_at < now)
             /\ \A k \in DOMAIN codes :
                   ~Spent(codes, k, now) =>
                      validate_authorization_code(codes', k, codes[k].client_id,
                                                  codes[k].redirect_uri, now).ok]_vars

\* a code was issued at the expires_at of an unused entry, which is still in
\* the store
C25_Witness ==
    /\ last.op = "issue"
    /\ \E k \in DOMAIN codes \ {last.code} :
          ~codes[k].used /\ codes[k].expires_at = now

\* ---------------------------------------------------------------------------
\* The lifetime of an access token
\* ---------------------------------------------------------------------------

\* the request presents, as a Bearer credential, a token the token endpoint
\* handed out
PresentsHandedOut(req) ==
    /\ req.header # NoHeader
    /\ req.header.scheme = "Bearer"
    /\ req.header.credentials \in HandedOutTokens

\* the code a handed-out token was exchanged for is no longer in the store
CodeGone(token) ==
    \E g \in tokens : g.token = token /\ g.code \notin DOMAIN codes

\* C26: a token the token endpoint handed out is accepted by
\* verify_access_token, with its own claims, and forwarded by the middleware
\* at every time up to and including its exp, and refused by both at every
\* later time, whatever happened to the store and to other tokens since it
\* was issued.
C26_Lifetime ==
    /\ (last.op = "verify" /\ last.req \in HandedOutTokens) =>
         IF now > last.req.exp
         THEN last.resp = Nothing
         ELSE last.resp = Some(Payload(last.req))
    /\ (last.op = "dispatch" /\ PresentsHandedOut(last.req)) =>
         IF now > last.req.header.credentials.exp
         THEN last.resp.kind # "forwarded"
         ELSE last.resp = Forwarded(Some(Payload(last.req.header.credentials)))

\* a token is forwarded at the last moment of its life, after the code it was
\* exchanged for has left the store and a second token has been handed out
C26_Witness ==
    /\ last.op = "dispatch"
    /\ PresentsHandedOut(last.req)
    /\ last.resp.kind = "forwarded"
    /\ now = last.req.header.credentials.exp
    /\ CodeGone(last.req.header.credentials)
    /\ Cardinality(tokens) = 2

\* a handed-out token is refused once its exp has passed
C26_Refused ==
    /\ last.op = "verify"
    /\ last.req \in HandedOutTokens
    /\ now > last.req.exp
    /\ last.resp = Nothing

\* ---------------------------------------------------------------------------
\* The claims of a new token
\* ---------------------------------------------------------------------------

\* C27: every token create_access_token makes has exp - iat equal to the
\* expires_in returned with it, which is the configured number of minutes
\* times 60.
C27_SameInstant ==
    last.op = "create" =>
        /\ last.resp.access_token.exp - last.resp.access_token.iat
              = last.resp.expires_in
        /\ last.resp.expires_in = cfg.access_token_expire_minutes * 60

\* what holds of the two readings: expires_in is the configured lifetime in
\* seconds, exp is the first reading plus that lifetime, iat is the second
\* reading, and exp - iat is expires_in less the time between the readings
ClaimsOfTwoReadings ==
    last.op = "create" =>
        /\ last.resp.expires_in = cfg.access_token_expire_minutes * 60
        /\ last.resp.access_token.exp = last.req.first + last.resp.expires_in
        /\ last.resp.access_token.iat = last.req.second
        /\ last.resp.access_token.exp - last.resp.access_token.iat
              = last.resp.expires_in - (last.req.second - last.req.first)

\* a token whose two readings fall in different seconds
ReadingsStraddle ==
    /\ last.op = "create"
    /\ last.req.second > last.req.first
    /\ last.resp.access_token.exp - last.resp.access_token.iat
          < last.resp.expires_in

\* a token whose two readings fall in the same second
ReadingsCoincide ==
    /\ last.op = "create"
    /\ last.req.second = last.req.first
    /\ last.resp.access_token.exp - last.resp.access_token.iat
          = last.resp.expires_in

\* ---------------------------------------------------------------------------
\* Where the entries of the store come from
\* ---------------------------------------------------------------------------

\* the step adds the code k to the store
Adds(k) == k \in DOMAIN codes' /\ k \notin DOMAIN codes

\* the step is a POST /oauth/authorize that named the configured client, gave
\* the configured password and was answered with the code k
AuthorizedPostReturns(k) ==
    /\ last'.op = "authorize_post"
    /\ Get(last'.req.client_id, "") = cfg.client_id
    /\ Truthy(cfg.auth_password)
    /\ Get(last'.req.password, "") = cfg.auth_password
    /\ "code" \in DOMAIN last'
    /\ last'.code = k
    /\ last'.resp.kind = "redirect"

\* C28: a code enters the store only in a POST /oauth/authorize that passed
\* the client_id check and the password check and returned that code; every
\* stored code carries the configured client id; and the token endpoint
\* redeems only a code string an earlier authorization returned.
C28_Provenance ==
    [][/\ \A k \in Codes : Adds(k) => AuthorizedPostReturns(k)
       /\ \A k \in DOMAIN codes' :
            /\ codes'[k].client_id = cfg.client_id
            /\ k \in DOMAIN minted'
       /\ (last'.op = "token" /\ last'.resp.kind = "token")
            => last'.req.code \in DOMAIN minted]_vars

\* the one code issued so far, stored under the configured client, has been
\* redeemed by the token endpoint
C28_Witness ==
    /\ last.op = "token"
    /\ last.resp.kind = "token"
    /\ last.req.code = "c1"
    /\ DOMAIN minted = {"c1"}
    /\ codes["c1"].client_id = cfg.client_id
    /\ codes["c1"].used

\* ---------------------------------------------------------------------------
\* Token requests refused before the code is looked at
\* ---------------------------------------------------------------------------

\* the step is a token request answered oauth_not_configured,
\* unsupported_grant_type or invalid_client
RefusedEarly ==
    /\ last'.op = "token"
    /\ last'.resp \in {NotConfigured,
                       JsonError(400, "unsupported_grant_type"),
                       JsonError(401, "invalid_client")}

\* the code k can be exchanged in `store` at time t by the configured client
\* presenting the redirect URI the code was issued for
RedeemableIn(store, k, t) ==
    /\ k \in DOMAIN store
    /\ validate_authorization_code(store, k, cfg.client_id,
                                   store[k].redirect_uri, t).ok

\* C29: a token request answered oauth_not_configured, unsupported_grant_type
\* or invalid_client changes nothing in the authorization-code store (nor in
\* the tokens handed out): no code is marked used or removed, and every code
\* that could be redeemed before the request can still be redeemed by the
\* configured client at every later time up to its expiry.
C29_RefusedEarlyFrame ==
    [][RefusedEarly =>
         /\ UNCHANGED <<codes, tokens, redeemed>>
         /\ \A k \in DOMAIN codes :
              RedeemableIn(codes, k, now) =>
                 \A t \in now'..MaxNow :
                    t <= codes[k].expires_at => RedeemableIn(codes', k, t)]_vars

\* a request with a wrong secret names a code that is in the store, unused and
\* not expired; it is refused and the code is still there, unused
C29_Witness ==
    /\ last.op = "token"
    /\ last.resp = JsonError(401, "invalid_client")
    /\ last.req.client_id = cfg.client_id
    /\ last.req.code \in DOMAIN codes
    /\ ~codes[last.req.code].used
    /\ RedeemableIn(codes, last.req.code, now)

\* a request of another grant type naming a redeemable code is refused
C29_OtherGrantType ==
    /\ last.op = "token"
    /\ last.resp = JsonError(400, "unsupported_grant_type")
    /\ last.req.code \in DOMAIN codes
    /\ RedeemableIn(codes, last.req.code, now)

\* ---------------------------------------------------------------------------
\* What the token endpoint tells a caller without credentials
\* ---------------------------------------------------------------------------

\* the answer to a token request computed from the request and the
\* configuration alone, for credentials that do not match
AnswerWithoutStore(f) ==
    IF f.grant_type # "authorization_code"
    THEN JsonError(400, "unsupported_grant_type")
    ELSE IF VerifyClientRaises(f.client_id, f.client_secret) THEN ServerError
    ELSE InvalidClient401

\* the states of the store with respect to the presented code
CodeAbsent(store, k) == k \notin DOMAIN store

CodeUsed(store, k) == k \in DOMAIN store /\ store[k].used

CodeExpired(store, k, t) == k \in DOMAIN store /\ ~store[k].used /\ t > store[k].expires_at

CodeValid(store, k, t) == k \in DOMAIN store /\ ~store[k].used /\ ~(t > store[k].expires_at)

\* C30: the answer to a token request whose client credentials do not match
\* is determined by the request and the configuration alone: it is the same
\* whether the presented code is absent, valid, used or expired, and the
\* request leaves the store as it was.  A token request that redeems changes
\* no entry of the store other than the one of the presented code.
C30_NoOracle ==
    [][TokenStep =>
         /\ ~CredentialsMatch(last'.req) =>
               /\ last'.resp = AnswerWithoutStore(last'.req)
               /\ UNCHANGED <<codes, tokens, redeemed>>
         /\ DOMAIN codes' \subseteq DOMAIN codes
         /\ \A k \in DOMAIN codes :
               k # last'.req.code => (k \in DOMAIN codes' /\ codes'[k] = codes[k])]_vars

\* a request with a wrong secret presents a code that has been used, while
\* another code is in the store, and is told invalid_client
C30_Witness ==
    /\ last.op = "token"
    /\ oauth_enabled(cfg)
    /\ ~CredentialsMatch(last.req)
    /\ last.req.grant_type = "authorization_code"
    /\ last.resp = InvalidClient401
    /\ CodeUsed(codes, last.req.code)
    /\ Cardinality(DOMAIN codes) = 2

\* the same answer is given for a code that is absent, valid, or expired
UnauthenticatedCodeAbsent ==
    /\ last.op = "token" /\ oauth_enabled(cfg)
    /\ ~CredentialsMatch(last.req)
    /\ last.resp = InvalidClient401
    /\ CodeAbsent(codes, last.req.code)

UnauthenticatedCodeValid ==
    /\ last.op = "token" /\ oauth_enabled(cfg)
    /\ ~CredentialsMatch(last.req)
    /\ last.resp = InvalidClient401
    /\ CodeValid(codes, last.req.code, now)

UnauthenticatedCodeExpired ==
    /\ last.op = "token" /\ oauth_enabled(cfg)
    /\ ~CredentialsMatch(last.req)
    /\ last.resp = InvalidClient401
    /\ CodeExpired(codes, last.req.code, now)

\* a redeeming request changes the entry of its code and leaves another one
RedeemLeavesOtherEntry ==
    /\ last.op = "token"
    /\ last.resp.kind = "token"
    /\ Cardinality(DOMAIN codes) = 2
    /\ \E k \in DOMAIN codes : k # last.req.code /\ ~codes[k].used

====
